---- MODULE Spec2Model ----
(***************************************************************************)
(* A model of the arXiv -> Discord digest job (src/src/*.py).              *)
(*                                                                         *)
(* Text is a sequence of one-character strings.  Time is an integer count  *)
(* of ticks, TicksPerHour ticks to the hour.  An optional value is a       *)
(* sequence: None is <<>> and a present value v is <<v>>.                  *)
(***************************************************************************)
EXTENDS Integers, Sequences, FiniteSets, TLC

(* ------------------------------------------------------------------ *)
(* Bounds of the model                                                *)
(* ------------------------------------------------------------------ *)
MaxBlocks == 2
MaxTextLen == 4
MaxUnitLen == 4
MaxItems == 3
MaxRuns == 2
MaxTopics == 2
MaxFeed == 2
MaxLedgerBound == 2
TicksPerHour == 2

(* ------------------------------------------------------------------ *)
(* Python str operations used by util.py                              *)
(* ------------------------------------------------------------------ *)
SP == " "
TAB == "\t"
NL == "\n"
Letters == {"a", "b"}
Whitespace == {SP, TAB, NL}
Alphabet == Letters \cup Whitespace

Min(a, b) == IF a <= b THEN a ELSE b
Max(a, b) == IF a >= b THEN a ELSE b

\* s[lo:hi] for 0 <= lo, 0 <= hi (Python clamps both to len(s))
Slice(s, lo, hi) == SubSeq(s, Min(lo, Len(s)) + 1, Min(hi, Len(s)))

\* s[lo:]
SliceFrom(s, lo) == SubSeq(s, Min(lo, Len(s)) + 1, Len(s))

RECURSIVE lstrip(_)
lstrip(s) ==
  IF s # <<>> /\ Head(s) \in Whitespace THEN lstrip(Tail(s)) ELSE s

RECURSIVE rstrip(_)
rstrip(s) ==
  IF s # <<>> /\ s[Len(s)] \in Whitespace
  THEN rstrip(SubSeq(s, 1, Len(s) - 1))
  ELSE s

strip(s) == rstrip(lstrip(s))

\* s.rfind(ch, 0, end): the highest 0-based index below end holding ch, or -1
rfind(s, ch, end) ==
  LET hits == {i \in 0..(Min(end, Len(s)) - 1) : s[i + 1] = ch}
  IN IF hits = {} THEN -1 ELSE CHOOSE i \in hits : \A j \in hits : j <= i

\* s.splitlines(): cut at every line break, no empty last line
RECURSIVE splitlines(_)
splitlines(s) ==
  IF s = <<>> THEN <<>>
  ELSE LET brk == {i \in 1..Len(s) : s[i] = NL}
       IN IF brk = {} THEN <<s>>
          ELSE LET i == CHOOSE k \in brk : \A j \in brk : k <= j
               IN <<SubSeq(s, 1, i - 1)>> \o splitlines(SubSeq(s, i + 1, Len(s)))

(* ------------------------------------------------------------------ *)
(* util.split_long_line                                               *)
(* ------------------------------------------------------------------ *)
\* split_long_line resuming one character after the cut
RECURSIVE split_loop_skip(_, _, _, _)
split_loop_skip(remaining, chunks, max_len, fuel) ==
  IF Len(remaining) <= max_len
  THEN [chunks |-> IF remaining # <<>> THEN Append(chunks, remaining) ELSE chunks,
        halted |-> TRUE]
  ELSE IF fuel = 0
  THEN [chunks |-> chunks, halted |-> FALSE]
  ELSE LET found == rfind(remaining, SP, max_len)
           split0 == IF found <= 0 THEN max_len ELSE found
           chunk0 == rstrip(Slice(remaining, 0, split0))
           chunk == IF chunk0 = <<>> THEN Slice(remaining, 0, max_len) ELSE chunk0
           split_at == IF chunk0 = <<>> THEN max_len ELSE split0
       IN split_loop_skip(lstrip(SliceFrom(remaining, split_at + 1)),
                          Append(chunks, chunk), max_len, fuel - 1)

\* The while loop of split_long_line.  fuel counts the iterations left
\* before the loop is reported as not halting: every iteration of a halting
\* run removes at least one character, so Len(line) + 1 iterations suffice.
RECURSIVE split_loop(_, _, _, _)
split_loop(remaining, chunks, max_len, fuel) ==
  IF Len(remaining) <= max_len
  THEN [chunks |-> IF remaining # <<>> THEN Append(chunks, remaining) ELSE chunks,
        halted |-> TRUE]
  ELSE IF fuel = 0
  THEN [chunks |-> chunks, halted |-> FALSE]
  ELSE LET found == rfind(remaining, SP, max_len)
           split0 == IF found <= 0 THEN max_len ELSE found
           chunk0 == rstrip(Slice(remaining, 0, split0))
           chunk == IF chunk0 = <<>> THEN Slice(remaining, 0, max_len) ELSE chunk0
           split_at == IF chunk0 = <<>> THEN max_len ELSE split0
       IN split_loop(lstrip(SliceFrom(remaining, split_at)),
                     Append(chunks, chunk), max_len, fuel - 1)

split_long_line_run(line, max_len) ==
  IF Len(line) <= max_len
  THEN [chunks |-> <<line>>, halted |-> TRUE]
  ELSE split_loop(line, <<>>, max_len, Len(line) + 1)

split_long_line(line, max_len) == split_long_line_run(line, max_len).chunks

(* ------------------------------------------------------------------ *)
(* util.split_blocks_to_messages                                      *)
(* ------------------------------------------------------------------ *)
\* [piece[i : i + max_len] for i in range(0, len(piece), max_len)]
RECURSIVE hard_split(_, _)
hard_split(piece, max_len) ==
  IF piece = <<>> THEN <<>>
  ELSE <<Slice(piece, 0, max_len)>> \o hard_split(SliceFrom(piece, max_len), max_len)

RECURSIVE FlatChunks(_, _)
FlatChunks(lines, max_len) ==
  IF lines = <<>> THEN <<>>
  ELSE split_long_line(Head(lines), max_len) \o FlatChunks(Tail(lines), max_len)

\* the pieces one block contributes (lines 67-76)
block_pieces(block, max_len) ==
  LET clean_block == strip(block)
  IN IF clean_block = <<>> THEN <<>>
     ELSE IF Len(clean_block) > max_len
     THEN FlatChunks(splitlines(clean_block), max_len)
     ELSE <<clean_block>>

RECURSIVE all_pieces(_, _)
all_pieces(blocks, max_len) ==
  IF blocks = <<>> THEN <<>>
  ELSE block_pieces(Head(blocks), max_len) \o all_pieces(Tail(blocks), max_len)

\* the piece loop joining a piece to the buffer whenever the buffer is not empty
place_piece_always_joins(acc, piece, max_len) ==
  IF acc.current = <<>>
  THEN IF Len(piece) <= max_len
       THEN [messages |-> acc.messages, current |-> piece]
       ELSE [messages |-> acc.messages \o hard_split(piece, max_len), current |-> <<>>]
  ELSE [messages |-> acc.messages, current |-> acc.current \o <<NL, NL>> \o piece]

\* one turn of the piece loop (lines 78-99) on the pair (messages, current)
place_piece(acc, piece, max_len) ==
  LET candidate == acc.current \o <<NL, NL>> \o piece
  IN IF acc.current = <<>>
     THEN IF Len(piece) <= max_len
          THEN [messages |-> acc.messages, current |-> piece]
          ELSE [messages |-> acc.messages \o hard_split(piece, max_len),
                current |-> <<>>]
     ELSE IF Len(candidate) <= max_len
     THEN [messages |-> acc.messages, current |-> candidate]
     ELSE IF Len(piece) <= max_len
     THEN [messages |-> Append(acc.messages, acc.current), current |-> piece]
     ELSE [messages |-> Append(acc.messages, acc.current) \o hard_split(piece, max_len),
           current |-> <<>>]

RECURSIVE place_all(_, _, _)
place_all(acc, pieces, max_len) ==
  IF pieces = <<>> THEN acc
  ELSE place_all(place_piece(acc, Head(pieces), max_len), Tail(pieces), max_len)

split_blocks_to_messages(blocks, max_len) ==
  LET acc == place_all([messages |-> <<>>, current |-> <<>>],
                       all_pieces(blocks, max_len), max_len)
  IN IF acc.current # <<>> THEN Append(acc.messages, acc.current) ELSE acc.messages

\* whether every while loop the call enters comes to an end
split_blocks_halts(blocks, max_len) ==
  \A b \in 1..Len(blocks) :
    LET clean_block == strip(blocks[b])
        lines == splitlines(clean_block)
    IN Len(clean_block) > max_len =>
         \A l \in 1..Len(lines) : split_long_line_run(lines[l], max_len).halted

(* ------------------------------------------------------------------ *)
(* state.compute_cutoff_utc and the cutoffs of main.run               *)
(* ------------------------------------------------------------------ *)
None == <<>>
Some(v) == <<v>>
Val(o) == o[1]

HoursPerDay == 24
DefaultRecentWindowDays == 7

\* timedelta(hours=h) and timedelta(days=d), in ticks
hours(h) == h * TicksPerHour
days(d) == d * HoursPerDay * TicksPerHour

compute_cutoff_utc_noclamp(now_utc, last_success_utc, lookback_hours) ==
  LET lookback_delta == hours(lookback_hours)
  IN IF last_success_utc = None THEN now_utc - lookback_delta
     ELSE LET elapsed0 == now_utc - Val(last_success_utc)
              elapsed == IF elapsed0 < 0 THEN 0 ELSE elapsed0
          IN now_utc - Max(lookback_delta, elapsed)

compute_cutoff_utc(now_utc, last_success_utc, lookback_hours) ==
  LET lookback_delta == hours(Max(lookback_hours, 1))
  IN IF last_success_utc = None THEN now_utc - lookback_delta
     ELSE LET elapsed0 == now_utc - Val(last_success_utc)
              elapsed == IF elapsed0 < 0 THEN 0 ELSE elapsed0
              safe_window == Max(lookback_delta, elapsed)
          IN now_utc - safe_window

\* main.run: a recent_window_days below 1 is overridden
effective_recent_window_days(configured) ==
  IF configured < 1 THEN DefaultRecentWindowDays ELSE configured

recent_cutoff_utc(now_utc, recent_window_days) ==
  now_utc - days(effective_recent_window_days(recent_window_days))

candidate_cutoff_utc_later(state_cutoff, recent_cutoff) == Max(state_cutoff, recent_cutoff)

candidate_cutoff_utc(state_cutoff, recent_cutoff) == Min(state_cutoff, recent_cutoff)

(* ------------------------------------------------------------------ *)
(* filter_rank: classification, selection, partition                  *)
(* ------------------------------------------------------------------ *)
\* An entry is [arxiv_id, published_utc, title, summary]: arxiv_id "" is a
\* missing id, published_utc is None or Some(time), title and summary are
\* texts, sequences of characters.
\* A pattern of EDUCATIONAL_PATTERNS is the set of texts it matches between
\* its two \b: an optional letter is there or not, and \s+ and \s* stand for
\* one space and for at most one space, the search target holding no other
\* whitespace and no two spaces in a row.
EDUCATIONAL_PATTERNS ==
  <<
    \* \bsurveys?\b
    {<<"s", "u", "r", "v", "e", "y">>,
     <<"s", "u", "r", "v", "e", "y", "s">>},
    \* \btutorials?\b
    {<<"t", "u", "t", "o", "r", "i", "a", "l">>,
     <<"t", "u", "t", "o", "r", "i", "a", "l", "s">>},
    \* \breviews?\b
    {<<"r", "e", "v", "i", "e", "w">>,
     <<"r", "e", "v", "i", "e", "w", "s">>},
    \* \bprimer\b
    {<<"p", "r", "i", "m", "e", "r">>},
    \* \bintroduction\b
    {<<"i", "n", "t", "r", "o", "d", "u", "c", "t", "i", "o", "n">>},
    \* \bintroductory\b
    {<<"i", "n", "t", "r", "o", "d", "u", "c", "t", "o", "r", "y">>},
    \* \blecture\s*notes?\b
    {<<"l", "e", "c", "t", "u", "r", "e", "n", "o", "t", "e">>,
     <<"l", "e", "c", "t", "u", "r", "e", " ", "n", "o", "t", "e">>,
     <<"l", "e", "c", "t", "u", "r", "e", "n", "o", "t", "e", "s">>,
     <<"l", "e", "c", "t", "u", "r", "e", " ", "n", "o", "t", "e", "s">>},
    \* \bnotes?\b
    {<<"n", "o", "t", "e">>,
     <<"n", "o", "t", "e", "s">>},
    \* \bpedagogical\b
    {<<"p", "e", "d", "a", "g", "o", "g", "i", "c", "a", "l">>},
    \* \boverviews?\b
    {<<"o", "v", "e", "r", "v", "i", "e", "w">>,
     <<"o", "v", "e", "r", "v", "i", "e", "w", "s">>},
    \* \ba\s+guide\b
    {<<"a", " ", "g", "u", "i", "d", "e">>},
    \* \bbeginners?\b
    {<<"b", "e", "g", "i", "n", "n", "e", "r">>,
     <<"b", "e", "g", "i", "n", "n", "e", "r", "s">>},
    \* \bfor\s+beginners?\b
    {<<"f", "o", "r", " ", "b", "e", "g", "i", "n", "n", "e", "r">>,
     <<"f", "o", "r", " ", "b", "e", "g", "i", "n", "n", "e", "r", "s">>},
    \* \bfundamentals?\b
    {<<"f", "u", "n", "d", "a", "m", "e", "n", "t", "a", "l">>,
     <<"f", "u", "n", "d", "a", "m", "e", "n", "t", "a", "l", "s">>},
    \* \bfoundations?\b
    {<<"f", "o", "u", "n", "d", "a", "t", "i", "o", "n">>,
     <<"f", "o", "u", "n", "d", "a", "t", "i", "o", "n", "s">>},
    \* \bfrom\s+scratch\b
    {<<"f", "r", "o", "m", " ", "s", "c", "r", "a", "t", "c", "h">>},
    \* \bstep\s*by\s*step\b
    {<<"s", "t", "e", "p", "b", "y", "s", "t", "e", "p">>,
     <<"s", "t", "e", "p", " ", "b", "y", "s", "t", "e", "p">>,
     <<"s", "t", "e", "p", "b", "y", " ", "s", "t", "e", "p">>,
     <<"s", "t", "e", "p", " ", "b", "y", " ", "s", "t", "e", "p">>},
    \* \bhow\s+to\b
    {<<"h", "o", "w", " ", "t", "o">>},
    \* \bexplainer\b
    {<<"e", "x", "p", "l", "a", "i", "n", "e", "r">>},
    \* \broadmap\b
    {<<"r", "o", "a", "d", "m", "a", "p">>}
  >>

\* the alternation "|".join(EDUCATIONAL_PATTERNS)
EDUCATIONAL_REGEX == UNION {EDUCATIONAL_PATTERNS[i] : i \in 1..Len(EDUCATIONAL_PATTERNS)}

\* str.lower, character by character.  The characters of the model are
\* those up to U+00FF; LowerOf holds the ones that are not their own lower
\* case, A-Z and the capital letters U+00C0-U+00DE.
LowerOf ==
  ("A" :> "a") @@ ("B" :> "b") @@ ("C" :> "c") @@ ("D" :> "d") @@
  ("E" :> "e") @@ ("F" :> "f") @@ ("G" :> "g") @@ ("H" :> "h") @@
  ("I" :> "i") @@ ("J" :> "j") @@ ("K" :> "k") @@ ("L" :> "l") @@
  ("M" :> "m") @@ ("N" :> "n") @@ ("O" :> "o") @@ ("P" :> "p") @@
  ("Q" :> "q") @@ ("R" :> "r") @@ ("S" :> "s") @@ ("T" :> "t") @@
  ("U" :> "u") @@ ("V" :> "v") @@ ("W" :> "w") @@ ("X" :> "x") @@
  ("Y" :> "y") @@ ("Z" :> "z") @@ ("À" :> "à") @@ ("Á" :> "á") @@
  ("Â" :> "â") @@ ("Ã" :> "ã") @@ ("Ä" :> "ä") @@ ("Å" :> "å") @@
  ("Æ" :> "æ") @@ ("Ç" :> "ç") @@ ("È" :> "è") @@ ("É" :> "é") @@
  ("Ê" :> "ê") @@ ("Ë" :> "ë") @@ ("Ì" :> "ì") @@ ("Í" :> "í") @@
  ("Î" :> "î") @@ ("Ï" :> "ï") @@ ("Ð" :> "ð") @@ ("Ñ" :> "ñ") @@
  ("Ò" :> "ò") @@ ("Ó" :> "ó") @@ ("Ô" :> "ô") @@ ("Õ" :> "õ") @@
  ("Ö" :> "ö") @@ ("Ø" :> "ø") @@ ("Ù" :> "ù") @@ ("Ú" :> "ú") @@
  ("Û" :> "û") @@ ("Ü" :> "ü") @@ ("Ý" :> "ý") @@ ("Þ" :> "þ")

lower(s) == [i \in 1..Len(s) |-> IF s[i] \in DOMAIN LowerOf THEN LowerOf[s[i]] ELSE s[i]]

\* re.sub(r"[-_/]", " ", target)
sub_separators(s) == [i \in 1..Len(s) |-> IF s[i] \in {"-", "_", "/"} THEN SP ELSE s[i]]

\* the characters \s matches: space, \t, \n, U+000B, \f, \r, U+001C-U+001F,
\* U+0085 and U+00A0
RegexSpace ==
  {TAB, NL, "", "\f", "\r", "", "", "", "", SP,
   "", " "}

\* re.sub(r"\s+", " ", target): every run of whitespace becomes one space
RECURSIVE sub_whitespace(_)
sub_whitespace(s) ==
  IF s = <<>> THEN <<>>
  ELSE IF Head(s) \notin RegexSpace THEN <<Head(s)>> \o sub_whitespace(Tail(s))
  ELSE IF Len(s) >= 2 /\ s[2] \in RegexSpace THEN sub_whitespace(Tail(s))
  ELSE <<SP>> \o sub_whitespace(Tail(s))

\* the characters \w matches: the letters in both cases, the digits, "_",
\* and the letters and digits of U+00AA-U+00FF that have one case only
WordChars ==
  DOMAIN LowerOf \cup {LowerOf[c] : c \in DOMAIN LowerOf} \cup
  {"0", "1", "2", "3", "4", "5", "6", "7", "8", "9", "_", "ª",
   "²", "³", "µ", "¹", "º", "¼", "½", "¾", "ß", "ÿ"}

\* \b at the gap after position i of s (i = 0: before the first character)
word_boundary(s, i) ==
  LET before == i >= 1 /\ s[i] \in WordChars
      after == i + 1 <= Len(s) /\ s[i + 1] \in WordChars
  IN before # after

\* EDUCATIONAL_REGEX.search(target) finds a match
regex_search(target) ==
  \E literal \in EDUCATIONAL_REGEX :
    /\ Len(literal) <= Len(target)
    /\ \E i \in 0..(Len(target) - Len(literal)) :
         /\ \A k \in 1..Len(literal) : target[i + k] = literal[k]
         /\ word_boundary(target, i)
         /\ word_boundary(target, i + Len(literal))

is_educational(title, summary) ==
  LET target == strip(sub_whitespace(sub_separators(lower(title \o <<NL>> \o summary))))
  IN regex_search(target)

tagged(entry) ==
  [arxiv_id |-> entry.arxiv_id, published_utc |-> entry.published_utc,
   title |-> entry.title, summary |-> entry.summary,
   educational |-> is_educational(entry.title, entry.summary)]

\* the three tests of the loop of collect_candidates that drop an entry
dropped_strict(entry, cutoff_utc, sent_ids) ==
  \/ entry.arxiv_id = "" \/ entry.published_utc = None
  \/ Val(entry.published_utc) <= cutoff_utc
  \/ entry.arxiv_id \in sent_ids

dropped(entry, cutoff_utc, sent_ids) ==
  \/ entry.arxiv_id = "" \/ entry.published_utc = None
  \/ Val(entry.published_utc) < cutoff_utc
  \/ entry.arxiv_id \in sent_ids

\* sort_key: minus the timestamp, 0.0 for a missing one
sort_key(item) ==
  IF item.published_utc # None THEN 0 - Val(item.published_utc) ELSE 0

\* sorted(seq, key=sort_key): ascending by key, equal keys in input order
RECURSIVE insert_sorted(_, _)
insert_sorted(done, item) ==
  IF done = <<>> THEN <<item>>
  ELSE IF sort_key(done[Len(done)]) <= sort_key(item) THEN Append(done, item)
  ELSE Append(insert_sorted(SubSeq(done, 1, Len(done) - 1), item), done[Len(done)])

RECURSIVE sorted_by_key(_, _)
sorted_by_key(done, rest) ==
  IF rest = <<>> THEN done
  ELSE sorted_by_key(insert_sorted(done, Head(rest)), Tail(rest))

RECURSIVE kept_entries(_, _, _)
kept_entries(entries, cutoff_utc, sent_ids) ==
  IF entries = <<>> THEN <<>>
  ELSE (IF dropped(Head(entries), cutoff_utc, sent_ids) THEN <<>>
        ELSE <<tagged(Head(entries))>>)
       \o kept_entries(Tail(entries), cutoff_utc, sent_ids)

collect_candidates(entries, cutoff_utc, sent_ids) ==
  sorted_by_key(<<>>, kept_entries(entries, cutoff_utc, sent_ids))

RECURSIVE filter_educational(_, _)
filter_educational(candidates, flag) ==
  IF candidates = <<>> THEN <<>>
  ELSE (IF Head(candidates).educational = flag THEN <<Head(candidates)>> ELSE <<>>)
       \o filter_educational(Tail(candidates), flag)

\* a sample that may draw one position more than once
random_sample_with_replacement(pool, k) ==
  {[i \in 1..k |-> pool[f[i]]] : f \in [1..k -> 1..Len(pool)]}

\* random.sample(pool, k): any k elements at distinct positions, in any order
random_sample(pool, k) ==
  {[i \in 1..k |-> pool[f[i]]] :
     f \in {g \in [1..k -> 1..Len(pool)] : \A i, j \in 1..k : i # j => g[i] # g[j]}}

\* the pairs <<recent_entries, educational_entries>> the call may return
split_recent_and_educational(candidates, max_recent_items, max_educational_items) ==
  LET non_educational == filter_educational(candidates, FALSE)
      educational_pool == filter_educational(candidates, TRUE)
      recent_entries == Slice(non_educational, 0, Max(max_recent_items, 0))
      educational_limit == Max(max_educational_items, 0)
  IN IF educational_limit = 0 \/ educational_pool = <<>>
     THEN {<<recent_entries, <<>> >>}
     ELSE IF Len(educational_pool) <= educational_limit
     THEN {<<recent_entries, educational_pool>>}
     ELSE {<<recent_entries, sample>> :
             sample \in random_sample(educational_pool, educational_limit)}

(* ------------------------------------------------------------------ *)
(* util.to_utc_iso / parse_datetime_to_utc and the ledger of state.py *)
(* ------------------------------------------------------------------ *)
\* An ISO-8601 string is [iso |-> t]; isoformat keeps the microseconds, so
\* the string names the time exactly.
to_utc_iso(dt) == IF dt = None THEN None ELSE Some([iso |-> Val(dt)])

parse_datetime_to_utc(value) == IF value = None THEN None ELSE Some(Val(value).iso)

TopicNames == {"t1", "t2"}

\* A JSON ledger document.  top, sent_ids_type and topic_map_type are the
\* JSON types of the document, of its "sent_ids" and of its
\* "last_max_published_utc_by_topic"; sent_ids holds the ids found under
\* "sent_ids" whatever its type.  A document whose top is "list" is the JSON
\* array of the ids in sent_ids, one whose top is "null" is null.  A ledger
\* in memory is the same record with the three types "dict", "list", "dict".
DEFAULT_STATE ==
  [top |-> "dict", sent_ids_type |-> "list", sent_ids |-> <<>>,
   last_success_utc |-> None,
   topic_map_type |-> "dict",
   last_max_published_utc_by_topic |-> [n \in TopicNames |-> None]]

\* bool(raw), the test of "if raw:": null and the empty array are false.  An
\* object counts as true: state.update of an object without keys changes
\* nothing, as skipping the update does.
raw_is_true(raw) ==
  raw.top = "dict" \/ (raw.top = "list" /\ raw.sent_ids # <<>>)

\* state.update(raw) raises for an array of ids: dict.update takes each
\* element as a key and a value and an id is not two characters long
update_raises(raw) == raw_is_true(raw) /\ raw.top # "dict"

\* what ensure_state_shape returns when state.update does not raise: the
\* defaults, overwritten by raw if raw is true, then the two isinstance
\* repairs
ensure_state_shape(raw) ==
  IF ~raw_is_true(raw) THEN DEFAULT_STATE
  ELSE
  [top |-> "dict",
   sent_ids_type |-> "list",
   sent_ids |-> IF raw.sent_ids_type = "list" THEN raw.sent_ids ELSE <<>>,
   last_success_utc |-> raw.last_success_utc,
   topic_map_type |-> "dict",
   last_max_published_utc_by_topic |->
     IF raw.topic_map_type = "dict" THEN raw.last_max_published_utc_by_topic
     ELSE [n \in TopicNames |-> None]]

\* A file is [exists, doc].  load_state returns [raised, state, file]: the
\* ledger in memory and the file as load_state leaves it.
NoFile == [exists |-> FALSE, doc |-> DEFAULT_STATE]

save_state(state) == [exists |-> TRUE, doc |-> state]

\* json.load, then ensure_state_shape, which raises where state.update does
load_state(file) ==
  IF ~file.exists
  THEN [raised |-> FALSE, state |-> DEFAULT_STATE, file |-> save_state(DEFAULT_STATE)]
  ELSE IF update_raises(file.doc)
  THEN [raised |-> TRUE, state |-> DEFAULT_STATE, file |-> file]
  ELSE [raised |-> FALSE, state |-> ensure_state_shape(file.doc), file |-> file]

get_last_success_utc(state) == parse_datetime_to_utc(state.last_success_utc)

Range(seq) == {seq[i] : i \in 1..Len(seq)}

sent_id_set_forgets(state) == {}

sent_id_set(state) == Range(state.sent_ids)

\* seq[start:] for any integer start (a negative start counts from the end)
PySliceFrom(seq, start) ==
  IF start < 0 THEN SubSeq(seq, Max(Len(seq) + start, 0) + 1, Len(seq))
  ELSE SliceFrom(seq, start)

\* the loop of append_sent_ids
RECURSIVE append_new(_, _)
append_new(current, ids) ==
  IF ids = <<>> THEN current
  ELSE append_new(IF Head(ids) # "" /\ Head(ids) \notin Range(current)
                  THEN Append(current, Head(ids)) ELSE current,
                  Tail(ids))

\* if len(current) > max_sent_ids: current = current[-max_sent_ids:]
truncate_ids(current, max_sent_ids) ==
  IF Len(current) > max_sent_ids THEN PySliceFrom(current, 0 - max_sent_ids)
  ELSE current

append_sent_ids(state, ids, max_sent_ids) ==
  [state EXCEPT !.sent_ids = truncate_ids(append_new(state.sent_ids, ids), max_sent_ids)]

update_success_metadata(state, now_utc, last_max_published) ==
  [state EXCEPT
     !.last_success_utc = to_utc_iso(Some(now_utc)),
     !.last_max_published_utc_by_topic =
        [n \in TopicNames |->
           IF last_max_published[n] # None THEN to_utc_iso(last_max_published[n])
           ELSE state.last_max_published_utc_by_topic[n]]]

(* ------------------------------------------------------------------ *)
(* main: queries, rendering, transport                                *)
(* ------------------------------------------------------------------ *)
\* A topic is [name, has_query]: has_query is whether query_terms or
\* categories holds a non-blank entry.  build_search_query raises otherwise.
build_search_query_raises(topic) == ~topic.has_query

\* the latest published_utc of a feed, None when no entry has one
RECURSIVE max_published_of(_, _)
max_published_of(entries, best) ==
  IF entries = <<>> THEN best
  ELSE LET published == Head(entries).published_utc
       IN max_published_of(Tail(entries),
            IF published # None /\ (best = None \/ Val(published) > Val(best))
            THEN published ELSE best)

ids_of(entries) == {entries[i].arxiv_id : i \in 1..Len(entries)}

RECURSIVE id_list(_)
id_list(entries) ==
  IF entries = <<>> THEN <<>> ELSE <<Head(entries).arxiv_id>> \o id_list(Tail(entries))

\* lines 297-300 skipped: the working set is left as it was
sent_ids_after_topic_unchanged(sent_ids, topic_sent_entries) == sent_ids

\* lines 297-300: sent_ids.add(entry["arxiv_id"]) for every entry of the topic
sent_ids_after_topic(sent_ids, topic_sent_entries) ==
  sent_ids \cup ids_of(topic_sent_entries)

\* "\n".join(lines)
RECURSIVE join_lines(_)
join_lines(lines) ==
  IF lines = <<>> THEN <<>>
  ELSE IF Len(lines) = 1 THEN Head(lines)
  ELSE Head(lines) \o <<NL>> \o join_lines(Tail(lines))

\* a line of the digest, cut down to a star for an educational entry and the id
format_entry_line(entry) ==
  (IF entry.educational THEN <<"*">> ELSE <<>>) \o <<entry.arxiv_id>>

entry_lines(entries) ==
  IF entries = <<>> THEN << <<"-">> >>
  ELSE [i \in 1..Len(entries) |-> format_entry_line(entries[i])]

\* one header block, then one block per topic: a "recent" heading, the recent
\* lines, an "educational" heading, the educational lines
build_digest_blocks(topic_results) ==
  << <<"H">> >> \o
  [i \in 1..Len(topic_results) |->
     join_lines(<< <<"R">> >> \o entry_lines(topic_results[i].recent_entries)
                \o << <<"E">> >> \o entry_lines(topic_results[i].educational_entries))]

StatusOk == {200, 204}

\* DiscordWebhookClient.send with every status taken for a success
send_ignores_status(content, max_content_length, status) ==
  IF content = <<>> THEN "skipped"
  ELSE IF Len(content) > max_content_length THEN "raised"
  ELSE IF status \notin StatusOk THEN "dropped"
  ELSE "posted"

\* DiscordWebhookClient.send: "skipped" for empty content, "raised" for a
\* DiscordWebhookError, "posted" when the webhook took the content
send(content, max_content_length, status) ==
  IF content = <<>> THEN "skipped"
  ELSE IF Len(content) > max_content_length THEN "raised"
  ELSE IF status \notin StatusOk THEN "raised"
  ELSE "posted"

(* ------------------------------------------------------------------ *)
(* State                                                              *)
(* ------------------------------------------------------------------ *)
VARIABLES
  packIn,      \* the blocks handed to split_blocks_to_messages
  packMax,     \* its max_len
  packOut,     \* the messages it returned
  packHalted,  \* whether the call came to an end
  packPc,      \* "ready" before the call, "packed" after it
  cutNow,      \* now_utc
  cutLast,     \* last_success_utc of the loaded ledger, or None
  cutLookback, \* lookback_hours as configured
  cutDays,     \* recent_window_days as configured
  cutState,    \* state_cutoff_utc
  cutRecent,   \* recent_cutoff_utc
  cutCandidate,\* candidate_cutoff_utc, the cutoff handed to collect_candidates
  cutPc,       \* "ready" before the cutoffs are computed, "done" after
  selItems,    \* the entries handed to collect_candidates
  selCutoff,   \* its cutoff_utc
  selSent,     \* its sent_ids
  selOut,      \* the candidates it returned
  selPc,       \* "ready" before the call, "selected" after it
  partIn,      \* the candidates handed to split_recent_and_educational
  partRecentCap, \* its max_recent_items
  partEduCap,  \* its max_educational_items
  partRecent,  \* the recent_entries it returned
  partEdu,     \* the educational_entries it returned
  partPc,      \* "ready" before the call, "split" after it
  file,        \* the ledger file: [exists, doc]
  config,      \* config.yaml as main.run reads it
  pc,          \* where main.run stands: "idle", "topics", "build", "send"
  runs,        \* the runs started so far
  now_utc,     \* utc_now() of the run
  state,       \* the ledger in memory
  cutoff,      \* candidate_cutoff_utc of the run
  sent_ids,    \* the working set of delivered ids
  idx,         \* the position of the topic the loop is at, from 1
  topic_results,
  last_max,    \* last_max_published_utc_by_topic of the run
  messages,    \* what build_messages returned
  next,        \* the position of the message send_messages is at, from 1
  posted,      \* the contents the webhook took in this run, in order
  outcome,     \* "none", then "ok" or "failed" once the run has ended
  failedAt,    \* the step that raised: "load", "config", "query", "fetch", "build", "send"
  fileAtLoad,  \* the file as load_state left it
  rawAtLoad,   \* the file as load_state found it
  saves,       \* calls of save_state in this run after load_state returned
  fetches,     \* calls of ArxivClient.fetch in this run
  suppressed,  \* ids of this run's feeds, published since the cutoff, dropped as delivered
  preTrunc,    \* sent_ids of the last commit before truncation
  remembered   \* ids emitted by committed runs that the truncation has left in the ledger

packVars == <<packIn, packMax, packOut, packHalted, packPc>>
cutVars == <<cutNow, cutLast, cutLookback, cutDays, cutState, cutRecent,
             cutCandidate, cutPc>>
selVars == <<selItems, selCutoff, selSent, selOut, selPc>>
partVars == <<partIn, partRecentCap, partEduCap, partRecent, partEdu, partPc>>
runVars == <<file, config, pc, runs, now_utc, state, cutoff, sent_ids, idx,
             topic_results, last_max, messages, next, posted, outcome, failedAt,
             fileAtLoad, rawAtLoad, saves, fetches, suppressed, preTrunc,
             remembered>>

vars == <<packVars, cutVars, selVars, partVars, runVars>>

(* ------------------------------------------------------------------ *)
(* The packer on its own: every input within the bounds               *)
(* ------------------------------------------------------------------ *)
Texts(n) == UNION {[1..k -> Alphabet] : k \in 0..n}

\* the lists of at most nb blocks holding at most budget characters in all
RECURSIVE BlockLists(_, _)
BlockLists(nb, budget) ==
  IF nb = 0 THEN {<<>>}
  ELSE {<<>>} \cup
       UNION {{<<b>> \o rest : rest \in BlockLists(nb - 1, budget - Len(b))}
              : b \in Texts(budget)}

PackIdle ==
  /\ packIn = <<>>
  /\ packMax = 1
  /\ packOut = <<>>
  /\ packHalted = TRUE
  /\ packPc = "idle"

CutIdle ==
  /\ cutNow = 0
  /\ cutLast = None
  /\ cutLookback = 0
  /\ cutDays = 0
  /\ cutState = 0
  /\ cutRecent = 0
  /\ cutCandidate = 0
  /\ cutPc = "idle"

SelIdle ==
  /\ selItems = <<>>
  /\ selCutoff = 0
  /\ selSent = {}
  /\ selOut = <<>>
  /\ selPc = "idle"

PartIdle ==
  /\ partIn = <<>>
  /\ partRecentCap = 0
  /\ partEduCap = 0
  /\ partRecent = <<>>
  /\ partEdu = <<>>
  /\ partPc = "idle"

\* what main.run holds before its first step
RunLocalsInit ==
  /\ pc = "idle"
  /\ runs = 0
  /\ now_utc = 0
  /\ state = DEFAULT_STATE
  /\ cutoff = 0
  /\ sent_ids = {}
  /\ idx = 1
  /\ topic_results = <<>>
  /\ last_max = [n \in TopicNames |-> None]
  /\ messages = <<>>
  /\ next = 1
  /\ posted = <<>>
  /\ outcome = "none"
  /\ failedAt = "none"
  /\ saves = 0
  /\ fetches = 0
  /\ suppressed = {}
  /\ preTrunc = <<>>
  /\ remembered = {}

RunIdle ==
  /\ RunLocalsInit
  /\ file = NoFile
  /\ fileAtLoad = NoFile
  /\ rawAtLoad = NoFile
  /\ config = [topics |-> <<>>, max_recent_items |-> 0, max_educational_items |-> 0,
               max_sent_ids |-> 0, max_content_length |-> 1,
               lookback_hours |-> 0, recent_window_days |-> 0]

PackInit ==
  /\ CutIdle
  /\ SelIdle
  /\ PartIdle
  /\ RunIdle
  /\ packIn \in BlockLists(MaxBlocks, MaxTextLen)
  /\ packMax \in 1..MaxUnitLen
  /\ packOut = <<>>
  /\ packHalted = FALSE
  /\ packPc = "ready"

\* messages = split_blocks_to_messages(blocks, max_len)
Pack ==
  /\ packPc = "ready"
  /\ packOut' = split_blocks_to_messages(packIn, packMax)
  /\ packHalted' = split_blocks_halts(packIn, packMax)
  /\ packPc' = "packed"
  /\ UNCHANGED <<packIn, packMax, cutVars, selVars, partVars, runVars>>

PackNext == Pack

SpecPack == PackInit /\ [][PackNext]_vars

(* ------------------------------------------------------------------ *)
(* The cutoffs on their own: every clock, ledger time and setting     *)
(* ------------------------------------------------------------------ *)
ClockHours == {0, 1, 2, 3, 30}
ClockTimes == {hours(h) + f : h \in ClockHours, f \in 0..(TicksPerHour - 1)}
LookbackChoices == {-1, 0, 1, 2, 30}
WindowDayChoices == {-1, 0, 1, 2}

CutInit ==
  /\ PackIdle
  /\ SelIdle
  /\ PartIdle
  /\ RunIdle
  /\ cutNow \in ClockTimes
  /\ cutLast \in {None} \cup {Some(t) : t \in ClockTimes}
  /\ cutLookback \in LookbackChoices
  /\ cutDays \in WindowDayChoices
  /\ cutState = 0
  /\ cutRecent = 0
  /\ cutCandidate = 0
  /\ cutPc = "ready"

\* main.run, lines 208-210
ComputeCutoffs ==
  /\ cutPc = "ready"
  /\ cutState' = compute_cutoff_utc(cutNow, cutLast, cutLookback)
  /\ cutRecent' = recent_cutoff_utc(cutNow, cutDays)
  /\ cutCandidate' = candidate_cutoff_utc(cutState', cutRecent')
  /\ cutPc' = "done"
  /\ UNCHANGED <<cutNow, cutLast, cutLookback, cutDays, packVars, selVars, partVars,
               runVars>>

CutNext == ComputeCutoffs

SpecCutoff == CutInit /\ [][CutNext]_vars

(* ------------------------------------------------------------------ *)
(* The selector on its own: every feed within the bounds              *)
(* ------------------------------------------------------------------ *)
SelIds == {"", "a", "b"}
SelTimes == {1, 2}
\* the titles and summaries of the entries: "Note-book" (a match after
\* lower() and the "-" made a space), "noted" (no match), and "noted" with
\* the summary "A guide" (a match in the summary)
SelTexts ==
  {<< <<"N", "o", "t", "e", "-", "b", "o", "o", "k">>, <<>> >>,
   << <<"n", "o", "t", "e", "d">>, <<>> >>,
   << <<"n", "o", "t", "e", "d">>, <<"A", " ", "g", "u", "i", "d", "e">> >>}
SelEntries ==
  {[arxiv_id |-> id, published_utc |-> published, title |-> ts[1], summary |-> ts[2]] :
     id \in SelIds, published \in {None} \cup {Some(t) : t \in SelTimes},
     ts \in SelTexts}
SelSentChoices == {{}, {"a"}}

SelInit ==
  /\ PackIdle
  /\ CutIdle
  /\ PartIdle
  /\ RunIdle
  /\ selItems \in UNION {[1..n -> SelEntries] : n \in 0..MaxItems}
  /\ selCutoff \in SelTimes
  /\ selSent \in SelSentChoices
  /\ selOut = <<>>
  /\ selPc = "ready"

\* candidates = collect_candidates(entries, cutoff_utc=..., sent_ids=...)
Select ==
  /\ selPc = "ready"
  /\ selOut' = collect_candidates(selItems, selCutoff, selSent)
  /\ selPc' = "selected"
  /\ UNCHANGED <<selItems, selCutoff, selSent, packVars, cutVars, partVars, runVars>>

SelNext == Select

SpecSelect == SelInit /\ [][SelNext]_vars

(* ------------------------------------------------------------------ *)
(* The partition on its own: every candidate list within the bounds   *)
(* ------------------------------------------------------------------ *)
\* the candidate lists collect_candidates returns for the feeds of SelInit;
\* a feed with an entry it drops returns what the feed without it returns
PartCandidates ==
  UNION {{collect_candidates(items, cutoff_utc, {}) :
            items \in UNION {[1..n -> {e \in SelEntries : ~dropped(e, cutoff_utc, {})}]
                               : n \in 0..MaxItems}}
         : cutoff_utc \in SelTimes}
PartCaps == -1..MaxItems

PartInit ==
  /\ PackIdle
  /\ CutIdle
  /\ SelIdle
  /\ RunIdle
  /\ partIn \in PartCandidates
  /\ partRecentCap \in PartCaps
  /\ partEduCap \in PartCaps
  /\ partRecent = <<>>
  /\ partEdu = <<>>
  /\ partPc = "ready"

\* recent_entries, educational_entries = split_recent_and_educational(...)
Partition ==
  /\ partPc = "ready"
  /\ \E pair \in split_recent_and_educational(partIn, partRecentCap, partEduCap) :
       /\ partRecent' = pair[1]
       /\ partEdu' = pair[2]
  /\ partPc' = "split"
  /\ UNCHANGED <<partIn, partRecentCap, partEduCap, packVars, cutVars, selVars,
                 runVars>>

PartNext == Partition

SpecPartition == PartInit /\ [][PartNext]_vars

(* ------------------------------------------------------------------ *)
(* main.run, run after run, against one ledger file                   *)
(* ------------------------------------------------------------------ *)
RunIds == {"a", "b"}
RunClockTimes == {hours(200), hours(400)}
FeedTimes == {hours(100), hours(300)}
FeedTitles == {<<"S", "u", "r", "v", "e", "y", "s">>, <<"n", "o", "t", "e", "d">>}
FeedSummaries == {<<>>}
FeedEntries ==
  [arxiv_id : RunIds, published_utc : {None} \cup {Some(t) : t \in FeedTimes},
   title : FeedTitles, summary : FeedSummaries]
Feeds == UNION {[1..n -> FeedEntries] : n \in 0..MaxFeed}
Statuses == {204, 500}

TopicChoices ==
  {[name |-> "t1", has_query |-> TRUE], [name |-> "t2", has_query |-> TRUE],
   [name |-> "t2", has_query |-> FALSE]}

Configs ==
  [topics : UNION {[1..n -> TopicChoices] : n \in 0..MaxTopics},
   max_recent_items : {1},
   max_educational_items : {1},
   max_sent_ids : 0..MaxLedgerBound,
   max_content_length : {8},
   lookback_hours : {36},
   recent_window_days : {7}]

\* the ledger files a first run may find: none, a ledger of an earlier run,
\* and documents that are not of the expected shape
LedgerOfEarlierRun ==
  [DEFAULT_STATE EXCEPT !.sent_ids = <<"a">>,
                        !.last_success_utc = to_utc_iso(Some(hours(200)))]

FilesAtStart ==
  {NoFile,
   save_state(LedgerOfEarlierRun),
   save_state([LedgerOfEarlierRun EXCEPT !.sent_ids_type = "dict"]),
   save_state([LedgerOfEarlierRun EXCEPT !.topic_map_type = "list"]),
   save_state([LedgerOfEarlierRun EXCEPT !.top = "list"]),
   save_state([DEFAULT_STATE EXCEPT !.top = "list"]),
   save_state([DEFAULT_STATE EXCEPT !.top = "null"])}

RunInit ==
  /\ PackIdle
  /\ CutIdle
  /\ SelIdle
  /\ PartIdle
  /\ RunLocalsInit
  /\ file \in FilesAtStart
  /\ fileAtLoad = file
  /\ rawAtLoad = file
  /\ config \in Configs

otherVars == <<packVars, cutVars, selVars, partVars>>

\* an exception leaves run(): nothing is written on the way out
Raise(step) ==
  /\ pc' = "idle"
  /\ outcome' = "failed"
  /\ failedAt' = step

\* lines 205-222: the ledger is loaded, the clock read, the cutoffs computed
LoadAndCutoffs ==
  \E t \in RunClockTimes :
    LET loaded == load_state(file)
        last_success_utc == get_last_success_utc(loaded.state)
        state_cutoff_utc == compute_cutoff_utc(t, last_success_utc, config.lookback_hours)
    IN /\ now_utc' = t
       /\ state' = loaded.state
       /\ file' = loaded.file
       /\ fileAtLoad' = loaded.file
       /\ rawAtLoad' = file
       /\ cutoff' = candidate_cutoff_utc(state_cutoff_utc,
                                         recent_cutoff_utc(t, config.recent_window_days))
       /\ sent_ids' = sent_id_set(loaded.state)

\* lines 164-246 with a ledger load_state accepts and topics configured
StartRun ==
  /\ pc = "idle"
  /\ runs < MaxRuns
  /\ config.topics # <<>>
  /\ ~load_state(file).raised
  /\ LoadAndCutoffs
  /\ runs' = runs + 1
  /\ pc' = "topics"
  /\ idx' = 1
  /\ topic_results' = <<>>
  /\ last_max' = [n \in TopicNames |-> None]
  /\ messages' = <<>>
  /\ next' = 1
  /\ posted' = <<>>
  /\ outcome' = "none"
  /\ failedAt' = "none"
  /\ saves' = 0
  /\ fetches' = 0
  /\ suppressed' = {}
  /\ UNCHANGED <<config, preTrunc, remembered, otherVars>>

\* line 205: load_state raises
StartRunLoadRaises ==
  /\ pc = "idle"
  /\ runs < MaxRuns
  /\ load_state(file).raised
  /\ runs' = runs + 1
  /\ Raise("load")
  /\ rawAtLoad' = file
  /\ fileAtLoad' = file
  /\ topic_results' = <<>>
  /\ messages' = <<>>
  /\ posted' = <<>>
  /\ saves' = 0
  /\ fetches' = 0
  /\ suppressed' = {}
  /\ UNCHANGED <<file, config, now_utc, state, cutoff, sent_ids, idx, last_max, next,
                 preTrunc, remembered, otherVars>>

\* lines 205 and 244-246: the ledger is loaded, then "No topics configured"
StartRunNoTopics ==
  /\ pc = "idle"
  /\ runs < MaxRuns
  /\ config.topics = <<>>
  /\ ~load_state(file).raised
  /\ LoadAndCutoffs
  /\ runs' = runs + 1
  /\ Raise("config")
  /\ topic_results' = <<>>
  /\ messages' = <<>>
  /\ posted' = <<>>
  /\ saves' = 0
  /\ fetches' = 0
  /\ suppressed' = {}
  /\ UNCHANGED <<config, idx, last_max, next, preTrunc, remembered, otherVars>>

runLocals == <<now_utc, state, cutoff, sent_ids, idx, topic_results, last_max,
               messages, next, posted>>

\* line 251: build_search_query raises for the topic the loop is at
QueryRaises ==
  /\ pc = "topics"
  /\ build_search_query_raises(config.topics[idx])
  /\ Raise("query")
  /\ UNCHANGED <<file, config, runs, runLocals, fileAtLoad, rawAtLoad, saves, fetches,
                 suppressed, preTrunc, remembered, otherVars>>

\* lines 254-260: the fetch raises
FetchRaises ==
  /\ pc = "topics"
  /\ ~build_search_query_raises(config.topics[idx])
  /\ fetches' = fetches + 1
  /\ Raise("fetch")
  /\ UNCHANGED <<file, config, runs, runLocals, fileAtLoad, rawAtLoad, saves,
                 suppressed, preTrunc, remembered, otherVars>>

\* lines 250-304: one turn of the topic loop with a feed fetched and parsed
Topic ==
  /\ pc = "topics"
  /\ ~build_search_query_raises(config.topics[idx])
  /\ \E parsed_entries \in Feeds :
       LET topic_name == config.topics[idx].name
           candidates == collect_candidates(parsed_entries, cutoff, sent_ids)
       IN \E pair \in split_recent_and_educational(candidates, config.max_recent_items,
                                                    config.max_educational_items) :
            /\ last_max' = [last_max EXCEPT
                              ![topic_name] = max_published_of(parsed_entries, None)]
            /\ topic_results' = Append(topic_results,
                                       [name |-> topic_name, recent_entries |-> pair[1],
                                        educational_entries |-> pair[2]])
            /\ sent_ids' = sent_ids_after_topic(sent_ids, pair[1] \o pair[2])
            /\ suppressed' = suppressed \cup
                 {parsed_entries[i].arxiv_id : i \in
                    {j \in 1..Len(parsed_entries) :
                       /\ parsed_entries[j].published_utc # None
                       /\ Val(parsed_entries[j].published_utc) >= cutoff
                       /\ parsed_entries[j].arxiv_id \in sent_ids}}
  /\ fetches' = fetches + 1
  /\ IF idx < Len(config.topics)
     THEN idx' = idx + 1 /\ pc' = "topics"
     ELSE idx' = idx /\ pc' = "build"
  /\ UNCHANGED <<file, config, runs, now_utc, state, cutoff, messages, next, posted,
                 outcome, failedAt, fileAtLoad, rawAtLoad, saves, preTrunc, remembered,
                 otherVars>>

\* lines 306-321: the digest is rendered and packed
Build ==
  /\ pc = "build"
  /\ messages' = split_blocks_to_messages(build_digest_blocks(topic_results),
                                          config.max_content_length)
  /\ next' = 1
  /\ pc' = "send"
  /\ UNCHANGED <<file, config, runs, now_utc, state, cutoff, sent_ids, idx,
                 topic_results, last_max, posted, outcome, failedAt, fileAtLoad,
                 rawAtLoad, saves, fetches, suppressed, preTrunc, remembered,
                 otherVars>>

\* lines 306-321: rendering raises (a header_template naming an unknown field)
BuildRaises ==
  /\ pc = "build"
  /\ Raise("build")
  /\ UNCHANGED <<file, config, runs, runLocals, fileAtLoad, rawAtLoad, saves, fetches,
                 suppressed, preTrunc, remembered, otherVars>>

\* one turn of the loop of send_messages
Send ==
  /\ pc = "send"
  /\ next <= Len(messages)
  /\ \E status \in Statuses :
       LET result == send(messages[next], config.max_content_length, status)
       IN IF result = "raised"
          THEN /\ Raise("send")
               /\ UNCHANGED <<next, posted>>
          ELSE /\ next' = next + 1
               /\ posted' = IF result = "posted" THEN Append(posted, messages[next])
                             ELSE posted
               /\ UNCHANGED <<pc, outcome, failedAt>>
  /\ UNCHANGED <<file, config, runs, now_utc, state, cutoff, sent_ids, idx,
                 topic_results, last_max, messages, fileAtLoad, rawAtLoad, saves,
                 fetches, suppressed, preTrunc, remembered, otherVars>>

\* the ids of a pre-truncation sequence that the truncation of
\* append_sent_ids leaves in the ledger: all of them while the sequence is
\* within the bound, and all of them for a bound of 0, current[-0:] being
\* the whole list
Survivors(pre, bound) == Range(truncate_ids(pre, bound))

RECURSIVE emitted_entries(_)
emitted_entries(results) ==
  IF results = <<>> THEN <<>>
  ELSE Head(results).recent_entries \o Head(results).educational_entries
       \o emitted_entries(Tail(results))

\* lines 334-355: send_messages has returned; record, then save_state
Commit ==
  /\ pc = "send"
  /\ next > Len(messages)
  /\ LET sent_entry_ids == id_list(emitted_entries(topic_results))
         recorded == append_sent_ids(state, sent_entry_ids, config.max_sent_ids)
         updated == update_success_metadata(recorded, now_utc, last_max)
     IN /\ state' = updated
        /\ file' = save_state(updated)
        /\ preTrunc' = append_new(state.sent_ids, sent_entry_ids)
        /\ remembered' = (remembered \cup Range(sent_entry_ids))
                            \cap Survivors(preTrunc', config.max_sent_ids)
  /\ saves' = saves + 1
  /\ pc' = "idle"
  /\ outcome' = "ok"
  /\ UNCHANGED <<config, runs, now_utc, cutoff, sent_ids, idx, topic_results, last_max,
                 messages, next, posted, failedAt, fileAtLoad, rawAtLoad, fetches,
                 suppressed, otherVars>>

Next ==
  \/ StartRun
  \/ StartRunLoadRaises
  \/ StartRunNoTopics
  \/ QueryRaises
  \/ FetchRaises
  \/ Topic
  \/ Build
  \/ BuildRaises
  \/ Send
  \/ Commit

Spec == RunInit /\ [][Next]_vars

(* ------------------------------------------------------------------ *)
(* Claims                                                             *)
(* ------------------------------------------------------------------ *)
RECURSIVE Concat(_)
Concat(texts) == IF texts = <<>> THEN <<>> ELSE Head(texts) \o Concat(Tail(texts))

RECURSIVE WithoutWhitespace(_)
WithoutWhitespace(s) ==
  IF s = <<>> THEN <<>>
  ELSE IF Head(s) \in Whitespace THEN WithoutWhitespace(Tail(s))
  ELSE <<Head(s)>> \o WithoutWhitespace(Tail(s))

\* C2: the cutoff handed to the selector is the earlier of the state cutoff
\* and the recent-display cutoff; it is never later than now - lookback,
\* never later than now - recent_window_days and, when the last success is
\* not in the future, never later than the last success, so that no time at
\* or after the last success falls before the cutoff.
C2_NoIntervalSkipped ==
  cutPc = "done" =>
    /\ cutCandidate = (IF cutState <= cutRecent THEN cutState ELSE cutRecent)
    /\ cutCandidate <= cutNow - cutLookback * TicksPerHour
    /\ cutCandidate <= cutNow - cutDays * HoursPerDay * TicksPerHour
    /\ (cutLast # None /\ Val(cutLast) <= cutNow) =>
         /\ cutCandidate <= Val(cutLast)
         /\ \A published \in ClockTimes :
              published >= Val(cutLast) => ~(published < cutCandidate)

\* an outage longer than both windows: the state cutoff is the earlier one
C2_Witness ==
  /\ cutPc = "done"
  /\ cutLast # None
  /\ Val(cutLast) < cutNow - cutLookback * TicksPerHour
  /\ cutState < cutRecent
  /\ cutCandidate = Val(cutLast)

\* C3: compute_cutoff_utc equals the reference formula: with L the lookback
\* clamped to at least one hour, now - L when there is no last success;
\* otherwise, with elapsed = max(0, now - last success), now - elapsed when
\* elapsed > L and now - L when elapsed <= L.
C3_CutoffFormula ==
  cutPc = "done" =>
    LET L == TicksPerHour * (IF cutLookback >= 1 THEN cutLookback ELSE 1)
    IN IF cutLast = None THEN cutState = cutNow - L
       ELSE LET gap == cutNow - Val(cutLast)
                elapsed == IF gap > 0 THEN gap ELSE 0
            IN /\ elapsed > L => cutState = cutNow - elapsed
               /\ elapsed <= L => cutState = cutNow - L

\* a last success later than now, with a lookback below the one-hour minimum
C3_Witness ==
  /\ cutPc = "done"
  /\ cutLast # None
  /\ Val(cutLast) > cutNow
  /\ cutLookback < 1
  /\ cutState = cutNow - TicksPerHour

\* C6: the packer comes to an end and no unit it returns is longer than
\* max_len, for every list of blocks and every max_len >= 1.
C6_UnitsWithinBound ==
  packPc = "packed" =>
    /\ packHalted
    /\ \A i \in 1..Len(packOut) : Len(packOut[i]) <= packMax

\* a single block without whitespace, longer than max_len, was cut up
C6_Witness ==
  /\ packPc = "packed"
  /\ Len(packIn) = 1
  /\ Len(packIn[1]) > packMax
  /\ \A i \in 1..Len(packIn[1]) : packIn[1][i] \in Letters
  /\ Len(packOut) >= 2

\* C7: the units, concatenated with all whitespace removed, are the blocks,
\* concatenated in input order with all whitespace removed.
C7_NothingLostOrReordered ==
  packPc = "packed" =>
    WithoutWhitespace(Concat(packOut)) = WithoutWhitespace(Concat(packIn))

\* two blocks, the first cut at a space inside it, both letters present
C7_Witness ==
  /\ packPc = "packed"
  /\ Len(packIn) = 2
  /\ Len(packIn[1]) > packMax
  /\ \E i \in 2..(Len(packIn[1]) - 1) :
       packIn[1][i] = SP /\ packIn[1][i - 1] = "a" /\ packIn[1][i + 1] = "b"
  /\ packIn[2] # <<>>
  /\ Len(packOut) >= 3

\* the entries of seq published at time t, in the order of seq
RECURSIVE PublishedAt(_, _)
PublishedAt(seq, t) ==
  IF seq = <<>> THEN <<>>
  ELSE (IF Head(seq).published_utc = Some(t) THEN <<Head(seq)>> ELSE <<>>)
       \o PublishedAt(Tail(seq), t)

\* the entries of seq the claim keeps, in the order of seq
RECURSIVE Eligible(_, _, _)
Eligible(seq, cutoff_utc, delivered) ==
  IF seq = <<>> THEN <<>>
  ELSE (IF /\ Head(seq).arxiv_id # ""
           /\ Head(seq).published_utc # None
           /\ Val(Head(seq).published_utc) >= cutoff_utc
           /\ Head(seq).arxiv_id \notin delivered
        THEN <<Head(seq)>> ELSE <<>>)
       \o Eligible(Tail(seq), cutoff_utc, delivered)

\* latest time first, and within one time the order of seq
RECURSIVE NewestFirst(_, _)
NewestFirst(seq, times) ==
  IF times = {} THEN <<>>
  ELSE LET t == CHOOSE x \in times : \A y \in times : y <= x
       IN PublishedAt(seq, t) \o NewestFirst(seq, times \ {t})

Untagged(candidates) ==
  [i \in 1..Len(candidates) |->
     [arxiv_id |-> candidates[i].arxiv_id,
      published_utc |-> candidates[i].published_utc,
      title |-> candidates[i].title,
      summary |-> candidates[i].summary]]

\* C10: collect_candidates returns exactly the entries with a non-empty id
\* and a present publication time that is at or after the cutoff and whose
\* id is not already delivered, latest first, entries of equal time in
\* their input order.
C10_SelectExact ==
  selPc = "selected" =>
    Untagged(selOut) = NewestFirst(Eligible(selItems, selCutoff, selSent), SelTimes)

\* two entries published exactly at the cutoff are kept in input order, after
\* a later one that came last in the feed
C10_Witness ==
  /\ selPc = "selected"
  /\ Len(selItems) = 3
  /\ Len(selOut) = 3
  /\ selItems[3].published_utc = Some(selCutoff + 1)
  /\ selItems[1].published_utc = Some(selCutoff)
  /\ selItems[2].published_utc = Some(selCutoff)
  /\ selItems[1].arxiv_id # selItems[2].arxiv_id
  /\ selOut[2].arxiv_id = selItems[1].arxiv_id
  /\ selOut[3].arxiv_id = selItems[2].arxiv_id

EmittedIds == ids_of(emitted_entries(topic_results))

\* C1: a run that fails leaves the ledger file as load_state left it; after
\* load_state the file is written at most once in a run, and only once
\* every message of the run has been taken by the transport.
C1_LedgerUntouchedOnFailure ==
  /\ outcome = "failed" => file = fileAtLoad
  /\ saves = 0 => file = fileAtLoad
  /\ saves <= 1
  /\ saves = 1 => /\ outcome = "ok"
                  /\ next > Len(messages)
                  /\ posted = messages

\* the transport failed after it had taken part of a digest that announces ids
C1_Witness ==
  /\ outcome = "failed"
  /\ failedAt = "send"
  /\ Len(posted) >= 1
  /\ Len(posted) < Len(messages)
  /\ EmittedIds # {}
  /\ rawAtLoad.exists
  /\ file = fileAtLoad

\* C4: an id emitted by a run that committed is not emitted by a later run
\* loading that ledger, unless the size bound has evicted it.
C4_NoReEmission ==
  (pc # "idle" \/ outcome = "failed") => EmittedIds \cap remembered = {}

\* a later run was offered a remembered id again and announces another one
C4_Witness ==
  /\ runs = 2
  /\ pc = "send"
  /\ suppressed \cap remembered # {}
  /\ EmittedIds # {}

\* C5: no id is in the emitted lists of two different topics of one run.
C5_NoCrossTopicDuplicate ==
  \A i, j \in 1..Len(topic_results) :
    i # j =>
      ids_of(topic_results[i].recent_entries \o topic_results[i].educational_entries)
        \cap
      ids_of(topic_results[j].recent_entries \o topic_results[j].educational_entries)
        = {}

\* the second topic was offered an id the first topic of the run had emitted,
\* an id the ledger did not hold
C5_Witness ==
  /\ Len(topic_results) = 2
  /\ \E id \in suppressed :
       /\ id \notin sent_id_set(state)
       /\ id \in ids_of(topic_results[1].recent_entries
                        \o topic_results[1].educational_entries)
  /\ ids_of(topic_results[2].recent_entries \o topic_results[2].educational_entries) # {}

\* C8: after record, delivered_ids is no longer than the configured bound,
\* and when it was cut the ids kept are the last max_sent_ids of the
\* sequence before the cut.
C8_LedgerBound ==
  outcome = "ok" =>
    /\ Len(state.sent_ids) <= config.max_sent_ids
    /\ Len(preTrunc) > config.max_sent_ids =>
         state.sent_ids = SubSeq(preTrunc, Len(preTrunc) - config.max_sent_ids + 1,
                                 Len(preTrunc))

ExpectedShape(doc) ==
  doc.top = "dict" /\ doc.sent_ids_type = "list" /\ doc.topic_map_type = "dict"

\* C9: a run that finds a ledger file not of the expected shape ends in
\* load_state raising; load_state returns no ledger for such a file.
C9_BadShapeIsFatal ==
  (runs >= 1 /\ rawAtLoad.exists /\ ~ExpectedShape(rawAtLoad.doc)) =>
    (outcome = "failed" /\ failedAt = "load")

(* ------------------------------------------------------------------ *)
(* The partition                                                      *)
(* ------------------------------------------------------------------ *)
\* the entries of seq whose educational flag is flag, in the order of seq
WithFlag(seq, flag) == SelectSeq(seq, LAMBDA e : e.educational = flag)

\* how many positions of seq hold x
Occurrences(seq, x) == Cardinality({i \in 1..Len(seq) : seq[i] = x})

\* C11: recent_entries is the first max(max_recent_items, 0) non-educational
\* candidates in their order; educational_entries is empty when the cap is
\* <= 0 or the pool is empty, is the whole pool in order when the pool is no
\* larger than the cap, and otherwise has exactly cap elements, all of the
\* pool, none taken more often than the pool holds it.
C11_PartitionCaps ==
  partPc = "split" =>
    LET pool == WithFlag(partIn, TRUE)
        rest == WithFlag(partIn, FALSE)
        keep == IF partRecentCap > 0 THEN partRecentCap ELSE 0
    IN /\ Len(partRecent) = (IF keep < Len(rest) THEN keep ELSE Len(rest))
       /\ \A i \in 1..Len(partRecent) : partRecent[i] = rest[i]
       /\ IF partEduCap <= 0 \/ pool = <<>> THEN partEdu = <<>>
          ELSE IF Len(pool) <= partEduCap THEN partEdu = pool
          ELSE /\ Len(partEdu) = partEduCap
               /\ \A i \in 1..Len(partEdu) :
                    Occurrences(partEdu, partEdu[i]) <= Occurrences(pool, partEdu[i])

\* a sample was drawn from a pool larger than the cap, it is not the head of
\* the pool, and the recent list was cut short
C11_Witness ==
  /\ partPc = "split"
  /\ partEduCap >= 1
  /\ Len(WithFlag(partIn, TRUE)) > partEduCap
  /\ partEdu # SubSeq(WithFlag(partIn, TRUE), 1, partEduCap)
  /\ Len(partRecent) < Len(WithFlag(partIn, FALSE))

(* ------------------------------------------------------------------ *)
(* Ids within one candidate list                                      *)
(* ------------------------------------------------------------------ *)
\* C12: no two candidates collect_candidates returns share an id, whatever
\* the feed, a feed that supplies one id more than once included.
C12_CandidatesDeduplicated ==
  selPc = "selected" =>
    \A i, j \in 1..Len(selOut) :
      selOut[i].arxiv_id = selOut[j].arxiv_id => i = j

(* ------------------------------------------------------------------ *)
(* Words through the packer                                           *)
(* ------------------------------------------------------------------ *)
\* the blocks as one text, a line break after each block
RECURSIVE BlocksAsText(_)
BlocksAsText(blocks) ==
  IF blocks = <<>> THEN <<>>
  ELSE Head(blocks) \o <<NL>> \o BlocksAsText(Tail(blocks))

\* the positions of text that hold a non-whitespace character, ascending
WordCharPositions(text) ==
  SelectSeq([p \in 1..Len(text) |-> p], LAMBDA p : text[p] \notin Whitespace)

\* the length of the maximal run of non-whitespace characters around p
WordLenAt(text, p) ==
  LET first == CHOOSE q \in 1..p :
                 /\ \A r \in q..p : text[r] \notin Whitespace
                 /\ (q = 1 \/ text[q - 1] \in Whitespace)
      last == CHOOSE q \in p..Len(text) :
                 /\ \A r \in p..q : text[r] \notin Whitespace
                 /\ (q = Len(text) \/ text[q + 1] \in Whitespace)
  IN last - first + 1

\* <<unit, position>> of every non-whitespace character of the units, in order
UnitSlots(units) ==
  Concat([u \in 1..Len(units) |->
            SelectSeq([q \in 1..Len(units[u]) |-> <<u, q>>],
                      LAMBDA x : units[x[1]][x[2]] \notin Whitespace)])

\* C13: a word of the blocks (a maximal run of non-whitespace characters)
\* no longer than max_len lies whole inside one unit: two neighbouring
\* characters of such a word are neighbours in one unit.
C13_NoFittingWordSplit ==
  packPc = "packed" =>
    LET text == BlocksAsText(packIn)
        from == WordCharPositions(text)
        to == UnitSlots(packOut)
    IN \A k \in 1..(Len(from) - 1) :
         (/\ from[k + 1] = from[k] + 1
          /\ WordLenAt(text, from[k]) <= packMax
          /\ k + 1 <= Len(to))
         => to[k + 1] = <<to[k][1], to[k][2] + 1>>

(* ------------------------------------------------------------------ *)
(* The per-topic timestamps of the ledger                             *)
(* ------------------------------------------------------------------ *)
\* the time the ledger holds for a topic, or None
StoredLastMax(ledger, topic_name) ==
  parse_datetime_to_utc(ledger.last_max_published_utc_by_topic[topic_name])

\* C14: the time the ledger holds for a topic never decreases: no step of a
\* run replaces it by an earlier time or removes it.
C14_LastSeenMonotonic ==
  [][\A n \in TopicNames :
       StoredLastMax(state, n) # None =>
         /\ StoredLastMax(state', n) # None
         /\ Val(StoredLastMax(state', n)) >= Val(StoredLastMax(state, n))]_vars

(* ------------------------------------------------------------------ *)
(* Configuration errors                                               *)
(* ------------------------------------------------------------------ *)
\* C15: a run that fails on its configuration, no topics or a topic at any
\* position whose query cannot be built, has fetched no feed and has not
\* saved the ledger.
C15_ConfigErrorBeforeFetch ==
  (outcome = "failed" /\ failedAt \in {"config", "query"}) =>
    (fetches = 0 /\ saves = 0 /\ file = fileAtLoad)

====
